---------------------------- MODULE Spec2Model ----------------------------
(***************************************************************************)
(* A model of rascal/utils.py: the gridpoint lookup and domain crop, the   *)
(* AEMET wide-table parser and the grouping directive of group_data.       *)
(*                                                                         *)
(* The functions of utils.py are stateless, so each one is an action that  *)
(* takes its arguments from bounded sets and leaves its locals and its     *)
(* return value in the state.  Python indices are kept 0-based; a Python   *)
(* list l is a TLA+ sequence s with l[i] = s[i + 1].                       *)
(***************************************************************************)
EXTENDS Integers, Sequences, FiniteSets, TLC

VARIABLES
    pc,               \* which function has run: "idle" before any call
    grid_latitudes,   \* data['latitude'].values
    grid_longitudes,  \* data['longitude'].values
    call,             \* the arguments of the grid call made
    ret,              \* its locals and return value
    variable_name,    \* open_aemet's variable_name
    variable_df,      \* the wide table read from the station's file
    new_variable_df,  \* the table open_aemet returns, or the error it raises
    grouping,         \* group_data's directive
    ds,               \* the hourly series group_data is given
    grouped,          \* the series group_data returns, or the error it raises
    obj,              \* Preprocess._obj: the columns of the caller's table
    obj_at_call,      \* its columns when the Preprocess method was called
    raised,           \* the exception the Preprocess method raised, if any
    window_call,      \* the arguments of get_validation_window
    validation_window,\* the window it returns, or the error it raises
    files,            \* open_data: the file list of one variable
    existing,         \* the paths for which os.path.isfile is true
    position          \* the position of the for loop's iterator in files

vars == <<pc, grid_latitudes, grid_longitudes, call, ret,
          variable_name, variable_df, new_variable_df, grouping, ds, grouped,
          obj, obj_at_call, raised, window_call, validation_window,
          files, existing, position>>

gridVars == <<grid_latitudes, grid_longitudes, call, ret>>

aemetVars == <<variable_name, variable_df, new_variable_df>>

groupVars == <<grouping, ds, grouped>>

preprocessVars == <<obj, obj_at_call, raised>>

windowVars == <<window_call, validation_window>>

filesVars == <<files, existing, position>>

None == [none |-> TRUE]

\* the functions of a specification other than the one being run are not called
PreprocessIdle == obj = None /\ obj_at_call = None /\ raised = None

WindowIdle == window_call = None /\ validation_window = None

FilesIdle == files = None /\ existing = None /\ position = None

\* grid_buffer=None, the default of crop_domain
NoBuffer == <<>>

(***************************************************************************)
(* Bounds of the grid model.                                               *)
(***************************************************************************)
MaxCoord == 2     \* coordinates and query points are drawn from 0..MaxCoord
MaxGridLen == 3   \* longest coordinate array
MaxBuffer == 1    \* largest grid_buffer entry

Coords == 0 .. MaxCoord

Abs(x) == IF x < 0 THEN -x ELSE x

IsAscending(s) == \A i \in 1 .. Len(s) - 1 : s[i] < s[i + 1]

IsDescending(s) == \A i \in 1 .. Len(s) - 1 : s[i] > s[i + 1]

\* non-empty arrays, as get_nearest_gridpoint may be handed
AnyArrays == UNION { [1 .. n -> Coords] : n \in 1 .. MaxGridLen }

\* 1-D strictly monotonic, non-empty coordinate arrays of a gridded dataset
CoordArrays == { s \in AnyArrays : IsAscending(s) \/ IsDescending(s) }

(***************************************************************************)
(* Python built-ins used by get_nearest_gridpoint.                         *)
(***************************************************************************)
\* abs(grid - point), elementwise
AbsDiff(grid, point) == [i \in 1 .. Len(grid) |-> Abs(grid[i] - point)]

\* min(seq) of a non-empty sequence
PyMin(s) == CHOOSE m \in { s[i] : i \in 1 .. Len(s) } :
                \A i \in 1 .. Len(s) : m <= s[i]

ListIndexLast(s, v) ==
    CHOOSE i \in 0 .. Len(s) - 1 :
        s[i + 1] = v /\ \A j \in i + 1 .. Len(s) - 1 : s[j + 1] # v

\* list(seq).index(v): the first 0-based position holding v
ListIndex(s, v) ==
    CHOOSE i \in 0 .. Len(s) - 1 :
        s[i + 1] = v /\ \A j \in 0 .. i - 1 : s[j + 1] # v

\* get_nearest_gridpoint: <<ilat, ilon>>
get_nearest_gridpoint(grid_lons, grid_lats, point_longitude, point_latitude) ==
    LET nearest_latitude_distance == PyMin(AbsDiff(grid_lats, point_latitude))
        nearest_longitude_distance == PyMin(AbsDiff(grid_lons, point_longitude))
        ilat == ListIndex(AbsDiff(grid_lats, point_latitude), nearest_latitude_distance)
        ilon == ListIndex(AbsDiff(grid_lons, point_longitude), nearest_longitude_distance)
    IN  <<ilat, ilon>>

(***************************************************************************)
(* xarray's isel on one axis of n cells.  The selection is a record: the   *)
(* selected coordinate values in order, whether the axis was indexed by an *)
(* integer (the dimension is dropped, one value is left), and whether the  *)
(* index was out of bounds (IndexError).                                   *)
(***************************************************************************)
\* isel(axis=i), i an integer: negative indices count from the end
IselInt(coords, i) ==
    LET n == Len(coords)
        k == IF i < 0 THEN i + n ELSE i
    IN  IF k >= 0 /\ k < n
        THEN [values |-> <<coords[k + 1]>>, scalar |-> TRUE, error |-> FALSE]
        ELSE [values |-> <<>>, scalar |-> TRUE, error |-> TRUE]

\* slice.indices(n) for a bound of slice(start, stop), step 1
SliceBound(n, b) ==
    IF b < 0 THEN (IF b + n < 0 THEN 0 ELSE b + n)
    ELSE (IF b > n THEN n ELSE b)

\* isel(axis=slice(start, stop)): cells start .. stop - 1
IselSlice(coords, start, stop) ==
    LET n == Len(coords)
        lo == SliceBound(n, start)
        hi == SliceBound(n, stop)
    IN  [values |-> IF hi > lo THEN SubSeq(coords, lo + 1, hi) ELSE <<>>,
         scalar |-> FALSE, error |-> FALSE]

(***************************************************************************)
(* crop_domain.  grid_buffer is <<x buffer, y buffer>>: grid_buffer[0] is  *)
(* buffer[1] here and grid_buffer[1] is buffer[2].                         *)
(***************************************************************************)
\* lines 569-570
BufferMinLat(i_min_lat, n_lat, buffer) ==
    IF i_min_lat # n_lat THEN i_min_lat + buffer[2] ELSE i_min_lat

\* lines 571-572
BufferMaxLat(i_max_lat, buffer) ==
    IF i_max_lat # 0 THEN i_max_lat - buffer[2] ELSE i_max_lat

\* lines 574-575
BufferMinLon(i_min_lon, buffer) ==
    IF i_min_lon # 0 THEN i_min_lon - buffer[1] ELSE i_min_lon

\* lines 576-577
BufferMaxLon(i_max_lon, n_lon, buffer) ==
    IF i_max_lon # n_lon THEN i_max_lon + buffer[1] ELSE i_max_lon

CropBranchLatOnly(i_min_lat, i_max_lat, i_min_lon, i_max_lon) ==
    IF i_max_lat = i_min_lat THEN "line_lon" ELSE "grid"

\* lines 580-587: which isel is applied
CropBranch(i_min_lat, i_max_lat, i_min_lon, i_max_lon) ==
    IF i_max_lat = i_min_lat /\ i_max_lon # i_min_lon THEN "line_lon"
    ELSE IF i_max_lat # i_min_lat /\ i_max_lon = i_min_lon THEN "line_lat"
    ELSE IF i_max_lat = i_min_lat /\ i_max_lon = i_min_lon THEN "point"
    ELSE "grid"

crop_domain(lats, lons, lat_min, lat_max, lon_min, lon_max, grid_buffer) ==
    LET buffer == IF grid_buffer = NoBuffer THEN <<0, 0>> ELSE grid_buffer
        near_min == get_nearest_gridpoint(lons, lats, lon_min, lat_min)
        near_max == get_nearest_gridpoint(lons, lats, lon_max, lat_max)
        i_min_lat == BufferMinLat(near_min[1], Len(lats), buffer)
        i_max_lat == BufferMaxLat(near_max[1], buffer)
        i_min_lon == BufferMinLon(near_min[2], buffer)
        i_max_lon == BufferMaxLon(near_max[2], Len(lons), buffer)
        branch == CropBranch(i_min_lat, i_max_lat, i_min_lon, i_max_lon)
    IN  [nearest |-> [i_min_lat |-> near_min[1], i_max_lat |-> near_max[1],
                      i_min_lon |-> near_min[2], i_max_lon |-> near_max[2]],
         buffered |-> [i_min_lat |-> i_min_lat, i_max_lat |-> i_max_lat,
                       i_min_lon |-> i_min_lon, i_max_lon |-> i_max_lon],
         branch |-> branch,
         latitude |-> IF branch \in {"line_lon", "point"}
                      THEN IselInt(lats, i_max_lat)
                      ELSE IselSlice(lats, i_max_lat, i_min_lat),
         longitude |-> IF branch \in {"line_lat", "point"}
                       THEN IselInt(lons, i_max_lon)
                       ELSE IselSlice(lons, i_min_lon, i_max_lon)]

(***************************************************************************)
(* The grid specification: a grid, then one call on it.                    *)
(***************************************************************************)
Buffers == {NoBuffer} \cup (0 .. MaxBuffer) \X (0 .. MaxBuffer)

InitGrid ==
    /\ pc = "idle"
    /\ \/ grid_latitudes \in AnyArrays /\ grid_longitudes \in CoordArrays
       \/ grid_latitudes \in CoordArrays /\ grid_longitudes \in AnyArrays
    /\ call = None
    /\ ret = None
    /\ variable_name = None
    /\ variable_df = None
    /\ new_variable_df = None
    /\ grouping = None
    /\ ds = None
    /\ grouped = None
    /\ PreprocessIdle /\ WindowIdle /\ FilesIdle

GetNearestGridpoint ==
    /\ pc = "idle"
    /\ \E point_latitude \in Coords, point_longitude \in Coords :
        /\ call' = [point_latitude |-> point_latitude,
                    point_longitude |-> point_longitude]
        /\ ret' = get_nearest_gridpoint(grid_longitudes, grid_latitudes,
                                        point_longitude, point_latitude)
    /\ pc' = "get_nearest_gridpoint"
    /\ UNCHANGED <<grid_latitudes, grid_longitudes, aemetVars, groupVars,
                 preprocessVars, windowVars, filesVars>>

\* the coordinates of a gridded dataset are monotonic, and a Domain is a
\* bounding box: lat_min <= lat_max and lon_min <= lon_max
CropDomain ==
    /\ pc = "idle"
    /\ grid_latitudes \in CoordArrays
    /\ grid_longitudes \in CoordArrays
    /\ \E lat_min \in Coords, lat_max \in Coords,
          lon_min \in Coords, lon_max \in Coords, grid_buffer \in Buffers :
        /\ lat_min <= lat_max
        /\ lon_min <= lon_max
        /\ call' = [lat_min |-> lat_min, lat_max |-> lat_max,
                    lon_min |-> lon_min, lon_max |-> lon_max,
                    grid_buffer |-> grid_buffer]
        /\ ret' = crop_domain(grid_latitudes, grid_longitudes,
                              lat_min, lat_max, lon_min, lon_max, grid_buffer)
    /\ pc' = "crop_domain"
    /\ UNCHANGED <<grid_latitudes, grid_longitudes, aemetVars, groupVars,
                 preprocessVars, windowVars, filesVars>>

NextGrid == GetNearestGridpoint \/ CropDomain

Spec == InitGrid /\ [][NextGrid]_vars

(***************************************************************************)
(* open_aemet.                                                             *)
(*                                                                         *)
(* A column name of the file is a record [prefix, digits]: the letters and *)
(* the digit characters the regular expressions of lines 255-258 split it  *)
(* into ("TMAX01" is ["TMAX", <<0, 1>>]); the renamed column               *)
(* prefix + '_' + digits is the same record.  Columns without digits (AÑO, *)
(* MES, DIA) are the row keys.  A date is <<year, month, day>> and an hour *)
(* stamp <<year, month, day, hour>>.  A value is an exact fraction         *)
(* num / den, or NaN.                                                      *)
(***************************************************************************)
MaxMonth == 4     \* the file's records lie in months 1..MaxMonth
MaxRows == 2      \* most rows of a file
MaxBase == 1      \* the cell values of a file are offset by 0..MaxBase
MaxDia == 2       \* days 1..MaxDia in a humidity file

Years == {2023, 2024}

NaN == [nan |-> TRUE, num |-> 0, den |-> 1]

Val(n) == [nan |-> FALSE, num |-> n, den |-> 1]

\* a - b on two columns of raw values
VSub(a, b) == IF a.nan \/ b.nan THEN NaN ELSE Val(a.num - b.num)

\* a / k
VDiv(a, k) == IF a.nan THEN NaN ELSE [a EXCEPT !.den = @ * k]

\* str(n) for 0 <= n <= 99, as digit characters
Str(n) == IF n < 10 THEN <<n>> ELSE <<n \div 10, n % 10>>

\* s.zfill(2)
Zfill2(s) == IF Len(s) < 2 THEN <<0>> \o s ELSE s

IsLeap(y) == (y % 4 = 0 /\ y % 100 # 0) \/ y % 400 = 0

DaysInMonth(y, m) ==
    IF m = 2 THEN (IF IsLeap(y) THEN 29 ELSE 28)
    ELSE IF m \in {4, 6, 9, 11} THEN 30 ELSE 31

\* datetime.datetime(y, m, d) raises ValueError unless the day exists
DatetimeOk(y, m, d) == m \in 1 .. 12 /\ d \in 1 .. DaysInMonth(y, m)

DateLeq(a, b) ==
    \/ a[1] < b[1]
    \/ a[1] = b[1] /\ a[2] < b[2]
    \/ a[1] = b[1] /\ a[2] = b[2] /\ a[3] <= b[3]

\* pd.date_range(start, end, freq='1D')
DateRangeDaily(start, end) ==
    { d \in UNION { { <<y, m, k>> : k \in 1 .. DaysInMonth(y, m) } :
                      y \in start[1] .. end[1], m \in 1 .. 12 } :
        DateLeq(start, d) /\ DateLeq(d, end) }

\* pd.date_range(start, end, freq='1H'), start and end at 00:00
DateRangeHourly(start, end) ==
    { <<d[1], d[2], d[3], h>> : d \in DateRangeDaily(start, end), h \in 0 .. 23 }
        \ { <<end[1], end[2], end[3], h>> : h \in 1 .. 23 }

\* the variable prefixes of the columns, line 262 and 269-271
Variables(df) == { c.prefix : c \in df.columns } \ {"MET"}

\* the number a column's digits spell
DigitsValue(digits) ==
    IF Len(digits) = 1 THEN digits[1] ELSE 10 * digits[1] + digits[2]

PrefixCode(prefix) ==
    CASE prefix = "TMIN" -> 1 [] prefix = "P" -> 2 [] prefix = "TMAX" -> 3
      [] prefix = "MET" -> 4 [] OTHER -> 5

\* the raw cell of row r (1-based) in column col of the file: the files
\* differ by base, and the cells of a file by row, prefix and index
RawCell(df, r, col) ==
    df.base + 1000 * r + 100 * PrefixCode(col.prefix) + DigitsValue(col.digits)

\* variable_df.loc[mask, column].values and lines 280-283
Lookup(df, key, column) ==
    IF \E r \in 1 .. Len(df.rows) : df.rows[r] = key
    THEN Val(RawCell(df, CHOOSE r \in 1 .. Len(df.rows) :
                             /\ df.rows[r] = key
                             /\ \A q \in 1 .. r - 1 : df.rows[q] # key, column))
    ELSE NaN

\* the column looked up for a variable and a date: line 278 and line 329
LookupColumn(name, variable, date) ==
    IF name # "RHMA"
    THEN [prefix |-> variable, digits |-> Str(date[3])]
    ELSE [prefix |-> variable, digits |-> Zfill2(Str(date[4]))]

\* the row looked up for a date: lines 277-278 and 327-329
LookupKey(name, date) ==
    IF name # "RHMA" THEN <<date[1], date[2]>> ELSE <<date[1], date[2], date[3]>>

\* lines 265-267 and 306-317: the dates enumerated
Dates(name, df) ==
    LET first == df.rows[1]
        last == df.rows[Len(df.rows)]
    IN  IF name # "RHMA"
        THEN DateRangeDaily(<<first[1], first[2], 1>>, <<last[1], last[2], 31>>)
        ELSE { t \in DateRangeHourly(first, last) :
                 \E c \in df.columns : c.digits = Zfill2(Str(t[4])) }

\* whether lines 265-266 (306-315) build their datetimes
DatesOk(name, df) ==
    LET first == df.rows[1]
        last == df.rows[Len(df.rows)]
    IN  IF name # "RHMA"
        THEN DatetimeOk(first[1], first[2], 1) /\ DatetimeOk(last[1], last[2], 31)
        ELSE DatetimeOk(first[1], first[2], first[3])
                 /\ DatetimeOk(last[1], last[2], last[3])

\* .loc raises KeyError for a column label the table does not have
MissingColumn(name, df) ==
    \E v \in Variables(df), d \in Dates(name, df) :
        LookupColumn(name, v, d) \notin df.columns

\* lines 338-346: the columns of the returned table
OutColumns(variables) ==
    LET withMean == IF {"TMIN", "TMAX"} \subseteq variables
                    THEN variables \cup {"TMEAN"} ELSE variables
        withPcnr == IF "P" \in variables
                    THEN (withMean \ {"P"}) \cup {"PCNR"} ELSE withMean
    IN  IF "HU" \in variables THEN (withPcnr \ {"HU"}) \cup {"RHMA"} ELSE withPcnr

\* the file's variable behind a column of the returned table
SourceVariable(column) ==
    IF column = "PCNR" THEN "P" ELSE IF column = "RHMA" THEN "HU" ELSE column

\* lines 338-343: the divisions applied to the whole table
Scale(variables) ==
    (IF {"TMIN", "TMAX"} \subseteq variables THEN 10 ELSE 1)
        * (IF "P" \in variables THEN 10 ELSE 1)

\* lines 274-285 (324-336) and 338-346: one cell of the returned table
OutCell(name, df, date, column) ==
    LET cell(v) == Lookup(df, LookupKey(name, date), LookupColumn(name, v, date))
        raw == IF column = "TMEAN"
               THEN VDiv(VSub(cell("TMAX"), cell("TMIN")), 2)
               ELSE cell(SourceVariable(column))
    IN  VDiv(raw, Scale(Variables(df)))

Raised(error) == [outcome |-> error, index |-> {}, columns |-> {}, cell |-> <<>>]

open_aemet(name, df) ==
    IF ~DatesOk(name, df) THEN Raised("ValueError")
    ELSE IF MissingColumn(name, df) THEN Raised("KeyError")
    ELSE LET dates == Dates(name, df)
             columns == OutColumns(Variables(df))
         IN  [outcome |-> "ok", index |-> dates, columns |-> columns,
              cell |-> [k \in dates \X columns |-> OutCell(name, df, k[1], k[2])]]

(***************************************************************************)
(* The files open_aemet is given.                                          *)
(***************************************************************************)
MonthKeys == Years \X (1 .. MaxMonth)

DayKeys == {2024} \X (1 .. 2) \X (1 .. MaxDia)

KeyBefore(a, b) ==
    \/ a[1] < b[1]
    \/ a[1] = b[1] /\ a[2] < b[2]
    \/ Len(a) = 3 /\ a[1] = b[1] /\ a[2] = b[2] /\ a[3] < b[3]

\* the rows of a file, in chronological order
RowsOver(keys) ==
    { s \in UNION { [1 .. n -> keys] : n \in 1 .. MaxRows } :
        \A i \in 1 .. Len(s) - 1 : KeyBefore(s[i], s[i + 1]) }

\* the columns prefix + index for every prefix and index, zero-padded or not
ColumnsOf(prefixes, indices, padded) ==
    { [prefix |-> p, digits |-> IF padded THEN Zfill2(Str(i)) ELSE Str(i)] :
        p \in prefixes, i \in indices }

\* the value columns of the file found for a variable (lines 233-246)
FilePrefixes(name) ==
    IF name = "TMPA" THEN {{"TMAX", "TMIN"}, {"TMAX", "TMIN", "MET"}, {"TMAX"}}
    ELSE {{"P"}, {"P", "MET"}}

MonthlyColumns(name) ==
    { ColumnsOf(prefixes, 1 .. last, padded) :
        prefixes \in FilePrefixes(name), last \in {2, 30, 31}, padded \in BOOLEAN }

HourlyColumns ==
    { ColumnsOf({"HU"}, hu, padded) \cup ColumnsOf({"MET"}, met, padded) :
        hu \in {{0, 7, 13, 18}, {7, 13}}, met \in {{}, {7, 13}, {0, 7, 13, 18}},
        padded \in BOOLEAN }

InitAemet ==
    /\ pc = "idle"
    /\ grid_latitudes = <<>>
    /\ grid_longitudes = <<>>
    /\ call = None
    /\ ret = None
    /\ \/ /\ variable_name \in {"TMPA", "PCNR"}
          /\ variable_df \in [rows : RowsOver(MonthKeys),
                              columns : MonthlyColumns(variable_name),
                              base : 0 .. MaxBase]
       \/ /\ variable_name = "RHMA"
          /\ variable_df \in [rows : RowsOver(DayKeys), columns : HourlyColumns,
                              base : 0 .. MaxBase]
    /\ new_variable_df = None
    /\ grouping = None
    /\ ds = None
    /\ grouped = None
    /\ PreprocessIdle /\ WindowIdle /\ FilesIdle

OpenAemet ==
    /\ pc = "idle"
    /\ variable_df # None
    /\ new_variable_df' = open_aemet(variable_name, variable_df)
    /\ pc' = "open_aemet"
    /\ UNCHANGED <<gridVars, groupVars, variable_name, variable_df,
                 preprocessVars, windowVars, filesVars>>

NextAemet == OpenAemet

SpecAemet == InitAemet /\ [][NextAemet]_vars


(***************************************************************************)
(* group_data.                                                             *)
(*                                                                         *)
(* A directive is a sequence of characters.  A time stamp is a number of   *)
(* hours since 00:00 of day 0, so its hour of day is t % 24 and its        *)
(* calendar day t \div 24.  The series ds holds one value per hour from    *)
(* ds.start for ds.len hours.  An aggregated value is a fraction num/den.  *)
(***************************************************************************)
MaxTokens == 4    \* most tokens joined into a directive
MaxStart == 23    \* the series starts at hour 0..MaxStart of day 0
MaxHours == 49    \* longest series, in hours
MaxPattern == 1   \* the values of a series follow pattern 0..MaxPattern

Digits == {"0", "1", "2", "3", "4", "5", "6", "7", "8", "9"}

DigitValue(c) ==
    CASE c = "0" -> 0 [] c = "1" -> 1 [] c = "2" -> 2 [] c = "3" -> 3
      [] c = "4" -> 4 [] c = "5" -> 5 [] c = "6" -> 6 [] c = "7" -> 7
      [] c = "8" -> 8 [] OTHER -> 9

\* grouping=None, the default of group_data
NoGrouping == <<"None">>

\* "12hour_1D_mean", line 432
DefaultGrouping ==
    <<"1", "2", "h", "o", "u", "r", "_", "1", "D", "_", "m", "e", "a", "n">>

RECURSIVE SplitUnderscore(_)
\* grouping.split('_')
SplitUnderscore(s) ==
    IF \A i \in 1 .. Len(s) : s[i] # "_" THEN <<s>>
    ELSE LET i == CHOOSE k \in 1 .. Len(s) :
                      s[k] = "_" /\ \A j \in 1 .. k - 1 : s[j] # "_"
         IN  <<SubSeq(s, 1, i - 1)>> \o SplitUnderscore(SubSeq(s, i + 1, Len(s)))

RECURSIVE RemoveHour(_)
\* hour.replace("hour", "")
RemoveHour(s) ==
    IF Len(s) < 4 THEN s
    ELSE IF SubSeq(s, 1, 4) = <<"h", "o", "u", "r">>
         THEN RemoveHour(SubSeq(s, 5, Len(s)))
         ELSE <<s[1]>> \o RemoveHour(Tail(s))

\* whether int(s) returns: s is digits only (no sign or blank occurs here)
IntOk(s) == Len(s) > 0 /\ \A i \in 1 .. Len(s) : s[i] \in Digits

RECURSIVE IntOf(_)
\* int(s)
IntOf(s) ==
    IF Len(s) = 0 THEN 0
    ELSE 10 * IntOf(SubSeq(s, 1, Len(s) - 1)) + DigitValue(s[Len(s)])

\* the resampling frequency in hours: [n]D or [n]H; 0 when resample raises
\* ValueError for a frequency it cannot parse
FrequencyHours(frequency) ==
    LET n == Len(frequency)
        count == IF n = 1 THEN 1 ELSE IntOf(SubSeq(frequency, 1, n - 1))
    IN  IF n = 0 \/ (n > 1 /\ ~IntOk(SubSeq(frequency, 1, n - 1))) THEN 0
        ELSE IF frequency[n] = "D" THEN 24 * count
        ELSE IF frequency[n] = "H" THEN count
        ELSE 0

GroupTypesNoMax == {<<"s", "u", "m">>, <<"m", "e", "a", "n">>, <<"m", "i", "n">>}

\* lines 447-454: the aggregations group_data knows
GroupTypes ==
    {<<"s", "u", "m">>, <<"m", "e", "a", "n">>, <<"m", "i", "n">>, <<"m", "a", "x">>}

\* ds['time'].values
Times(series) == series.start .. series.start + series.len - 1

\* the value of the series at time t
ValueAt(series, t) == (t * (series.pattern + 3) + t \div 24) % 11

RECURSIVE SumOver(_, _)
SumOver(series, times) ==
    IF times = {} THEN 0
    ELSE LET t == CHOOSE x \in times : TRUE
         IN  ValueAt(series, t) + SumOver(series, times \ {t})

\* .sum(), .mean(), .min(), .max() over the samples of one bin
Aggregate(series, times, group_type) ==
    IF group_type = <<"s", "u", "m">>
    THEN [num |-> SumOver(series, times), den |-> 1]
    ELSE IF group_type = <<"m", "e", "a", "n">>
    THEN [num |-> SumOver(series, times), den |-> Cardinality(times)]
    ELSE IF group_type = <<"m", "i", "n">>
    THEN [num |-> CHOOSE v \in { ValueAt(series, t) : t \in times } :
                      \A t \in times : v <= ValueAt(series, t), den |-> 1]
    ELSE [num |-> CHOOSE v \in { ValueAt(series, t) : t \in times } :
                      \A t \in times : v >= ValueAt(series, t), den |-> 1]

\* what the resampling library leaves in a bin without samples
EmptyBin == [num |-> 0, den |-> 0]

GroupRaised(error) == [outcome |-> error, index |-> {}, cell |-> <<>>]

\* ds.resample(time=frequency).<group_type>(): bins of the frequency's width
\* counted from 00:00 of the first sample's day, from the first sample's bin
\* to the last sample's, each labelled by its start.  Resampling a series
\* without samples is left to the library: it returns no rows or raises.
Resample(series, times, frequency, group_type) ==
    LET width == FrequencyHours(frequency)
        first == CHOOSE t \in times : \A u \in times : t <= u
        last == CHOOSE t \in times : \A u \in times : t >= u
        origin == 24 * (first \div 24)
        bin(t) == origin + width * ((t - origin) \div width)
        index == { origin + width * k :
                     k \in (first - origin) \div width .. (last - origin) \div width }
    IN  IF width = 0 THEN {GroupRaised("ValueError")}
        ELSE IF times = {}
        THEN {GroupRaised("LibraryError"), [outcome |-> "ok", index |-> {}, cell |-> <<>>]}
        ELSE {[outcome |-> "ok", index |-> index,
               cell |-> [b \in index |->
                           LET samples == { t \in times : bin(t) = b }
                           IN  IF samples = {} THEN EmptyBin
                               ELSE Aggregate(series, samples, group_type)]]}

HourFilterEleven(series, hour) == { t \in Times(series) : t % 24 = hour - 1 }

\* lines 444-445: the samples taken at the hour of day
HourFilter(series, hour) == { t \in Times(series) : t % 24 = hour }

\* lines 434-440: a directive has 2 or 3 tokens
TokenCountOk(tokens) == Len(tokens) = 3 \/ Len(tokens) = 2

\* group_data: the set of its possible results
group_data(series, directive) ==
    LET g == IF directive = NoGrouping THEN DefaultGrouping ELSE directive
        tokens == SplitUnderscore(g)
        n == Len(tokens)
        frequency == tokens[n - 1]
        group_type == tokens[n]
        digits == RemoveHour(tokens[1])
    IN  IF ~TokenCountOk(tokens) THEN {GroupRaised("AttributeError")}
        ELSE IF n = 3 /\ ~IntOk(digits) THEN {GroupRaised("ValueError")}
        ELSE IF group_type \notin GroupTypes THEN {GroupRaised("AttributeError")}
        ELSE Resample(series,
                      IF n = 3 THEN HourFilter(series, IntOf(digits))
                      ELSE Times(series),
                      frequency, group_type)

(***************************************************************************)
(* The directives and series group_data is given.                          *)
(***************************************************************************)
TokenPool ==
    { <<"1", "2", "h", "o", "u", "r">>, <<"x", "h", "o", "u", "r">>,
      <<"1", "D">>, <<"6", "H">>, <<"s", "u", "m">>, <<"m", "e", "a", "n">>,
      <<"m", "i", "n">>, <<"m", "a", "x">>, <<"m", "e", "d", "i", "a", "n">>,
      <<>> }

RECURSIVE JoinUnderscore(_)
\* '_'.join(tokens)
JoinUnderscore(tokens) ==
    IF Len(tokens) = 1 THEN tokens[1]
    ELSE tokens[1] \o <<"_">> \o JoinUnderscore(Tail(tokens))

Directives ==
    { JoinUnderscore(tokens) :
        tokens \in UNION { [1 .. n -> TokenPool] : n \in 1 .. MaxTokens } }

\* the directives that keep the 12:00 samples, and two that do not
NoonDirectives ==
    { NoGrouping, DefaultGrouping,
      JoinUnderscore(<<<<"1", "2", "h", "o", "u", "r">>, <<"1", "D">>, <<"m", "a", "x">>>>),
      JoinUnderscore(<<<<"1", "D">>, <<"m", "e", "a", "n">>>>),
      JoinUnderscore(<<<<"6", "H">>, <<"s", "u", "m">>>>) }

AllSeries == [start : 0 .. MaxStart, len : 1 .. MaxHours, pattern : 0 .. MaxPattern]

FewSeries == { s \in AllSeries : s.len = MaxHours /\ s.start \in {0, 13} /\ s.pattern = 0 }

InitGroup ==
    /\ pc = "idle"
    /\ grid_latitudes = <<>>
    /\ grid_longitudes = <<>>
    /\ call = None
    /\ ret = None
    /\ variable_name = None
    /\ variable_df = None
    /\ new_variable_df = None
    /\ \/ grouping \in Directives /\ ds \in FewSeries
       \/ grouping \in NoonDirectives /\ ds \in AllSeries
    /\ grouped = None
    /\ PreprocessIdle /\ WindowIdle /\ FilesIdle

GroupData ==
    /\ pc = "idle"
    /\ ds # None
    /\ grouped' \in group_data(ds, grouping)
    /\ pc' = "group_data"
    /\ UNCHANGED <<gridVars, aemetVars, grouping, ds,
                 preprocessVars, windowVars, filesVars>>

NextGroup == GroupData

SpecGroup == InitGroup /\ [][NextGroup]_vars


(***************************************************************************)
(* Preprocess.  The caller's table is the set of its column names; the     *)
(* methods change it in place.  A method's result is the table as it is    *)
(* left and the exception raised ("none" when it returns).                 *)
(***************************************************************************)
ColumnNames == {"WSPD", "WDIR", "TDEW", "TMPA", "RADS01", "PCNR"}

\* lines 74-78: raises unless the table has one of variables_to_check
CheckVariableInObj(columns, variables_to_check) ==
    IF columns \cap variables_to_check = {} THEN "AttributeError" ELSE "none"

\* self._obj[name] on the right of an assignment: KeyError without the column
HasColumns(columns, names) == names \subseteq columns

\* lines 80-91
wind_components(columns, substitute) ==
    IF CheckVariableInObj(columns, {"WSPD", "WDIR"}) # "none"
    THEN [columns |-> columns, raised |-> "AttributeError"]
    ELSE IF ~HasColumns(columns, {"WSPD", "WDIR"})
    THEN [columns |-> columns, raised |-> "KeyError"]
    ELSE [columns |-> IF substitute
                      THEN (columns \cup {"U", "V"}) \ {"WSPD", "WDIR"}
                      ELSE columns \cup {"U", "V"},
          raised |-> "none"]

\* lines 93-99
clear_low_radiance(columns) ==
    IF CheckVariableInObj(columns, {"RADS01"}) # "none"
    THEN [columns |-> columns, raised |-> "AttributeError"]
    ELSE [columns |-> columns, raised |-> "none"]

\* lines 101-119: E is stored (line 111) before TMPA is read (line 114)
calculate_relative_humidity(columns) ==
    IF ~HasColumns(columns, {"TDEW"})
    THEN [columns |-> columns, raised |-> "KeyError"]
    ELSE IF ~HasColumns(columns, {"TMPA"})
    THEN [columns |-> columns \cup {"E"}, raised |-> "KeyError"]
    ELSE [columns |-> (columns \cup {"E", "ES", "RHMA"}) \ {"E", "ES"},
          raised |-> "none"]

InitPreprocess ==
    /\ pc = "idle"
    /\ grid_latitudes = <<>>
    /\ grid_longitudes = <<>>
    /\ call = None
    /\ ret = None
    /\ variable_name = None
    /\ variable_df = None
    /\ new_variable_df = None
    /\ grouping = None
    /\ ds = None
    /\ grouped = None
    /\ obj \in SUBSET ColumnNames
    /\ obj_at_call = obj
    /\ raised = "none"
    /\ WindowIdle /\ FilesIdle

WindComponents ==
    /\ pc = "idle"
    /\ \E substitute \in BOOLEAN :
          LET result == wind_components(obj, substitute)
          IN  obj' = result.columns /\ raised' = result.raised
    /\ pc' = "wind_components"
    /\ UNCHANGED <<gridVars, aemetVars, groupVars, obj_at_call, windowVars, filesVars>>

ClearLowRadiance ==
    /\ pc = "idle"
    /\ LET result == clear_low_radiance(obj)
       IN  obj' = result.columns /\ raised' = result.raised
    /\ pc' = "clear_low_radiance"
    /\ UNCHANGED <<gridVars, aemetVars, groupVars, obj_at_call, windowVars, filesVars>>

CalculateRelativeHumidity ==
    /\ pc = "idle"
    /\ LET result == calculate_relative_humidity(obj)
       IN  obj' = result.columns /\ raised' = result.raised
    /\ pc' = "calculate_relative_humidity"
    /\ UNCHANGED <<gridVars, aemetVars, groupVars, obj_at_call, windowVars, filesVars>>

NextPreprocess == WindComponents \/ ClearLowRadiance \/ CalculateRelativeHumidity

SpecPreprocess == InitPreprocess /\ [][NextPreprocess]_vars


(***************************************************************************)
(* get_validation_window.  A date is a day number; dates is the set of     *)
(* available days; the window returned is a set (line 221).                *)
(***************************************************************************)
MaxDay == 4       \* days are 0..MaxDay
MaxWindow == 2    \* window_size is 0..MaxWindow

\* line 204: the window types the code accepts
AcceptedWindowTypes == {"forward", "back", "centered"}

\* pd.date_range(start, end, freq='1D')
DayRange(initial_date, final_date) == initial_date .. final_date

\* lines 208-218
WindowBounds(test_date, window_size, window_type) ==
    IF window_type = "forward" THEN <<test_date - window_size, test_date>>
    ELSE IF window_type = "back" THEN <<test_date, test_date + window_size>>
    ELSE <<test_date - (window_size + 1) \div 2, test_date + window_size \div 2>>

get_validation_window(test_date, dates, window_size, window_type) ==
    IF window_type \notin AcceptedWindowTypes
    THEN [raised |-> "AttributeError", window |-> {}]
    ELSE LET bounds == WindowBounds(test_date, window_size, window_type)
         IN  [raised |-> "none",
              window |-> DayRange(bounds[1], bounds[2]) \cap dates]

\* the names a caller may pass: those of the docstring, the one of line 204,
\* and an unknown one
WindowTypeNames == {"forward", "backward", "back", "centered", "sideways"}

InitWindow ==
    /\ pc = "idle"
    /\ grid_latitudes = <<>>
    /\ grid_longitudes = <<>>
    /\ call = None
    /\ ret = None
    /\ variable_name = None
    /\ variable_df = None
    /\ new_variable_df = None
    /\ grouping = None
    /\ ds = None
    /\ grouped = None
    /\ PreprocessIdle /\ FilesIdle
    /\ window_call \in [dates : SUBSET (0 .. MaxDay)]
    /\ validation_window = None

GetValidationWindow ==
    /\ pc = "idle"
    /\ \E test_date \in 0 .. MaxDay, window_size \in 0 .. MaxWindow,
          window_type \in WindowTypeNames :
          /\ window_call' = [dates |-> window_call.dates, test_date |-> test_date,
                             window_size |-> window_size,
                             window_type |-> window_type]
          /\ validation_window' =
                 get_validation_window(test_date, window_call.dates,
                                       window_size, window_type)
    /\ pc' = "get_validation_window"
    /\ UNCHANGED <<gridVars, aemetVars, groupVars, preprocessVars, filesVars>>

NextWindow == GetValidationWindow

SpecWindow == InitWindow /\ [][NextWindow]_vars


(***************************************************************************)
(* open_data, lines 482-490: the existence check over one variable's file  *)
(* list.  A path is a number.  The for loop holds an iterator over the     *)
(* list it removes from: position is the 0-based index of the element the  *)
(* iterator yields next, and the loop ends when position reaches the       *)
(* list's current length.                                                  *)
(***************************************************************************)
MaxPaths == 3     \* paths are 1..MaxPaths
MaxFiles == 4     \* longest file list

\* files.remove(file_path): the list without the first element equal to it
ListRemove(list, file_path) ==
    LET i == CHOOSE k \in 1 .. Len(list) :
                 list[k] = file_path /\ \A j \in 1 .. k - 1 : list[j] # file_path
    IN  SubSeq(list, 1, i - 1) \o SubSeq(list, i + 1, Len(list))

FileLists == UNION { [1 .. n -> 1 .. MaxPaths] : n \in 0 .. MaxFiles }

InitFiles ==
    /\ pc = "idle"
    /\ grid_latitudes = <<>>
    /\ grid_longitudes = <<>>
    /\ call = None
    /\ ret = None
    /\ variable_name = None
    /\ variable_df = None
    /\ new_variable_df = None
    /\ grouping = None
    /\ ds = None
    /\ grouped = None
    /\ PreprocessIdle /\ WindowIdle
    /\ files \in FileLists
    /\ existing \in SUBSET (1 .. MaxPaths)
    /\ position = 0

\* line 485: iter(files)
OpenDataLoopStart ==
    /\ pc = "idle"
    /\ pc' = "for file_path in files"
    /\ position' = 0
    /\ UNCHANGED <<gridVars, aemetVars, groupVars, preprocessVars, windowVars,
                   files, existing>>

\* lines 485-486: the next path exists
OpenDataLoopKeep ==
    /\ pc = "for file_path in files"
    /\ position < Len(files)
    /\ files[position + 1] \in existing
    /\ position' = position + 1
    /\ UNCHANGED <<gridVars, aemetVars, groupVars, preprocessVars, windowVars,
                   pc, files, existing>>

\* lines 485-488: the next path does not exist and is removed
OpenDataLoopRemove ==
    /\ pc = "for file_path in files"
    /\ position < Len(files)
    /\ files[position + 1] \notin existing
    /\ files' = ListRemove(files, files[position + 1])
    /\ position' = position + 1
    /\ UNCHANGED <<gridVars, aemetVars, groupVars, preprocessVars, windowVars,
                   pc, existing>>

\* line 490: the iterator is exhausted and the list goes to xr.open_mfdataset
OpenDataLoad ==
    /\ pc = "for file_path in files"
    /\ position >= Len(files)
    /\ pc' = "open_mfdataset"
    /\ UNCHANGED <<gridVars, aemetVars, groupVars, preprocessVars, windowVars,
                   files, existing, position>>

NextFiles ==
    OpenDataLoopStart \/ OpenDataLoopKeep \/ OpenDataLoopRemove \/ OpenDataLoad

SpecFiles == InitFiles /\ [][NextFiles]_vars


(***************************************************************************)
(* Properties of the grid functions.                                       *)
(***************************************************************************)
ZeroBuffer == call.grid_buffer \in {NoBuffer, <<0, 0>>}

LatDist(i) == Abs(grid_latitudes[i + 1] - call.point_latitude)

LonDist(j) == Abs(grid_longitudes[j + 1] - call.point_longitude)

\* C1: get_nearest_gridpoint returns, on each axis independently, the lowest
\* index minimising the absolute difference to the query coordinate; a query
\* coordinate that is a grid coordinate is answered by a cell at distance 0.
C1_NearestIsLowestMinimiser ==
    pc = "get_nearest_gridpoint" =>
        /\ ret[1] \in 0 .. Len(grid_latitudes) - 1
        /\ ret[2] \in 0 .. Len(grid_longitudes) - 1
        /\ \A i \in 0 .. Len(grid_latitudes) - 1 :
              /\ LatDist(ret[1]) <= LatDist(i)
              /\ i < ret[1] => LatDist(i) > LatDist(ret[1])
        /\ \A j \in 0 .. Len(grid_longitudes) - 1 :
              /\ LonDist(ret[2]) <= LonDist(j)
              /\ j < ret[2] => LonDist(j) > LonDist(ret[2])
        /\ (\E i \in 0 .. Len(grid_latitudes) - 1 : LatDist(i) = 0)
              => LatDist(ret[1]) = 0
        /\ (\E j \in 0 .. Len(grid_longitudes) - 1 : LonDist(j) = 0)
              => LonDist(ret[2]) = 0

\* a lookup with a tie on the latitude axis, whose array is not monotonic,
\* and an exact match on the other
C1_Witness ==
    /\ pc = "get_nearest_gridpoint"
    /\ grid_latitudes \notin CoordArrays
    /\ \E i \in 0 .. Len(grid_latitudes) - 1 :
          i > ret[1] /\ LatDist(i) = LatDist(ret[1])
    /\ LonDist(ret[2]) = 0
    /\ ret[2] > 0

SeqMin(s) == CHOOSE m \in { s[i] : i \in 1 .. Len(s) } :
                 \A i \in 1 .. Len(s) : m <= s[i]

SeqMax(s) == CHOOSE m \in { s[i] : i \in 1 .. Len(s) } :
                 \A i \in 1 .. Len(s) : m >= s[i]

FullBox ==
    /\ call.lat_min = SeqMin(grid_latitudes)
    /\ call.lat_max = SeqMax(grid_latitudes)
    /\ call.lon_min = SeqMin(grid_longitudes)
    /\ call.lon_max = SeqMax(grid_longitudes)

\* C2: crop_domain on the box spanning the whole grid, with zero buffer,
\* selects as many latitude cells and as many longitude cells as the grid has.
C2_FullBoxKeepsShape ==
    (pc = "crop_domain" /\ ZeroBuffer /\ FullBox) =>
        /\ Len(ret.latitude.values) = Len(grid_latitudes)
        /\ Len(ret.longitude.values) = Len(grid_longitudes)

\* C3: a point query with zero buffer takes the single-point branch and
\* selects exactly one latitude and one longitude, those of the gridpoint
\* nearest to the query point.
C3_PointQuerySelectsNearest ==
    (/\ pc = "crop_domain"
     /\ ZeroBuffer
     /\ call.lat_min = call.lat_max
     /\ call.lon_min = call.lon_max) =>
        /\ ret.branch = "point"
        /\ ~ret.latitude.error /\ ~ret.longitude.error
        /\ Len(ret.latitude.values) = 1
        /\ Len(ret.longitude.values) = 1
        /\ \A i \in 1 .. Len(grid_latitudes) :
              Abs(ret.latitude.values[1] - call.lat_min)
                  <= Abs(grid_latitudes[i] - call.lat_min)
        /\ \A j \in 1 .. Len(grid_longitudes) :
              Abs(ret.longitude.values[1] - call.lon_min)
                  <= Abs(grid_longitudes[j] - call.lon_min)

\* a point query off the grid, on a grid of several cells per axis
C3_Witness ==
    /\ pc = "crop_domain"
    /\ ZeroBuffer
    /\ call.lat_min = call.lat_max
    /\ call.lon_min = call.lon_max
    /\ Len(grid_latitudes) > 1
    /\ Len(grid_longitudes) > 1
    /\ ret.branch = "point"
    /\ ret.latitude.values[1] # call.lat_min
    /\ ret.nearest.i_max_lat > 0
    /\ ret.nearest.i_max_lon > 0

AtLatExtreme(i) == i = 0 \/ i = Len(grid_latitudes) - 1

\* C4: in the buffer step a latitude corner index already at an extreme of
\* the latitude axis (0 or length-1) is left unchanged, so it stays inside
\* [0, length-1].
C4_LatExtremeUnbuffered ==
    pc = "crop_domain" =>
        /\ AtLatExtreme(ret.nearest.i_min_lat)
              => ret.buffered.i_min_lat = ret.nearest.i_min_lat
        /\ AtLatExtreme(ret.nearest.i_max_lat)
              => ret.buffered.i_max_lat = ret.nearest.i_max_lat

Reverse(s) == [i \in 1 .. Len(s) |-> s[Len(s) + 1 - i]]

ValueSet(selection) == { selection.values[i] : i \in 1 .. Len(selection.values) }

\* C5: on a grid with strictly ascending latitudes and a box whose corners
\* map to distinct latitude cells, the selected latitude cells are non-empty
\* and are the same latitude values as are selected when the grid is stored
\* with latitudes descending.
C5_AscendingLatitudeHandled ==
    (/\ pc = "crop_domain"
     /\ IsAscending(grid_latitudes)
     /\ call.lat_min < call.lat_max
     /\ ret.nearest.i_min_lat # ret.nearest.i_max_lat) =>
        /\ ret.latitude.values # <<>>
        /\ ValueSet(ret.latitude)
             = ValueSet(crop_domain(Reverse(grid_latitudes), grid_longitudes,
                                    call.lat_min, call.lat_max, call.lon_min,
                                    call.lon_max, call.grid_buffer).latitude)

(***************************************************************************)
(* Properties of open_aemet.                                               *)
(***************************************************************************)
Prefixes(df) == { c.prefix : c \in df.columns }

\* the days of the months from the first to the last record of the file
CalendarDays(df) ==
    LET first == df.rows[1]
        last == df.rows[Len(df.rows)]
    IN  { d \in Years \X (1 .. 12) \X (1 .. 31) :
            /\ d[3] <= DaysInMonth(d[1], d[2])
            /\ ~KeyBefore(<<d[1], d[2]>>, <<first[1], first[2]>>)
            /\ ~KeyBefore(<<last[1], last[2]>>, <<d[1], d[2]>>) }

IsTenth(value, raw) == ~value.nan /\ value.num * 10 = raw * value.den

\* C6: for a one-row (one month) table whose columns are TMAX and TMIN
\* followed by the two-digit zero-padded day, open_aemet returns one row per
\* day of the month, each TMAX/TMIN cell being the raw cell of the matching
\* column divided by 10, and a TMEAN column.
C6_PaddedMonthParsed ==
    (/\ pc = "open_aemet"
     /\ variable_name # "RHMA"
     /\ Len(variable_df.rows) = 1
     /\ Prefixes(variable_df) = {"TMAX", "TMIN"}
     /\ \A c \in variable_df.columns : Len(c.digits) = 2) =>
        /\ new_variable_df.outcome = "ok"
        /\ new_variable_df.index = CalendarDays(variable_df)
        /\ "TMEAN" \in new_variable_df.columns
        /\ \A d \in new_variable_df.index, c \in variable_df.columns :
              DigitsValue(c.digits) = d[3] =>
                  IsTenth(new_variable_df.cell[<<d, c.prefix>>],
                          RawCell(variable_df, 1, c))

\* C7: for a non-humidity file, whatever its first and last (year, month)
\* records, open_aemet completes and its index is every day from the first
\* day of the first record's month to the last day of the last record's.
C7_FullCalendarRange ==
    (/\ pc = "open_aemet"
     /\ variable_name # "RHMA"
     /\ variable_df.columns
          = ColumnsOf(Prefixes(variable_df), 1 .. 31, FALSE)) =>
        /\ new_variable_df.outcome = "ok"
        /\ new_variable_df.index = CalendarDays(variable_df)

\* C8: once the dates are enumerated, a lookup whose row or whose column
\* does not exist leaves NaN in the cell and raises nothing.
C8_MissingLookupIsNaN ==
    (pc = "open_aemet" /\ DatesOk(variable_name, variable_df)) =>
        /\ new_variable_df.outcome = "ok"
        /\ \A d \in new_variable_df.index, c \in new_variable_df.columns :
              LET v == SourceVariable(c)
                  key == LookupKey(variable_name, d)
              IN  (/\ c # "TMEAN"
                   /\ \/ \A r \in 1 .. Len(variable_df.rows) :
                             variable_df.rows[r] # key
                      \/ LookupColumn(variable_name, v, d)
                             \notin variable_df.columns)
                      => new_variable_df.cell[<<d, c>>].nan

(***************************************************************************)
(* Properties of group_data.                                               *)
(***************************************************************************)
\* the directive in force: the default one when grouping is None
Directive == IF grouping = NoGrouping THEN DefaultGrouping ELSE grouping

Underscores(g) == { i \in 1 .. Len(g) : g[i] = "_" }

NumTokens(g) == Cardinality(Underscores(g)) + 1

\* the token before the first underscore
FirstToken(g) ==
    SubSeq(g, 1, (CHOOSE i \in Underscores(g) :
                      \A j \in Underscores(g) : i <= j) - 1)

\* the token after the last underscore
LastToken(g) ==
    SubSeq(g, (CHOOSE i \in Underscores(g) :
                   \A j \in Underscores(g) : i >= j) + 1, Len(g))

ClaimedAggregations ==
    {<<"s", "u", "m">>, <<"m", "e", "a", "n">>, <<"m", "i", "n">>, <<"m", "a", "x">>}

ShapeOk == NumTokens(Directive) \in {2, 3}

AggregationOk == LastToken(Directive) \in ClaimedAggregations

\* the hour token of a 3-token directive is not an integer once "hour" is
\* taken out of it
HourUnreadable ==
    NumTokens(Directive) = 3 /\ ~IntOk(RemoveHour(FirstToken(Directive)))

\* C9 as claimed: group_data raises the configuration error (AttributeError)
\* exactly for the directives whose token count is not 2 or 3 or whose
\* aggregation token is not one of sum, mean, min, max.
C9_ConfigurationError ==
    pc = "group_data" =>
        (grouped.outcome = "AttributeError" <=> (~ShapeOk \/ ~AggregationOk))

\* C9 as amended: group_data raises AttributeError for every directive whose
\* token count is not 2 or 3; a 3-token directive whose hour token is not an
\* integer raises ValueError whatever its aggregation token; every other
\* directive with an unknown aggregation token raises AttributeError; and a
\* directive of 2 or 3 tokens with a known aggregation raises no
\* AttributeError.
C9_ConfigurationErrorAfterHour ==
    pc = "group_data" =>
        /\ ~ShapeOk => grouped.outcome = "AttributeError"
        /\ (ShapeOk /\ HourUnreadable) => grouped.outcome = "ValueError"
        /\ (ShapeOk /\ ~HourUnreadable /\ ~AggregationOk)
              => grouped.outcome = "AttributeError"
        /\ (ShapeOk /\ AggregationOk) => grouped.outcome # "AttributeError"

\* "xhour_1D_median": an unreadable hour and an unknown aggregation
C9_Witness ==
    /\ pc = "group_data"
    /\ NumTokens(Directive) = 3
    /\ FirstToken(Directive) = <<"x", "h", "o", "u", "r">>
    /\ LastToken(Directive) = <<"m", "e", "d", "i", "a", "n">>
    /\ HourUnreadable
    /\ ~AggregationOk
    /\ grouped.outcome = "ValueError"

SeriesDays == { t \div 24 : t \in Times(ds) }

NoonDays == { d \in SeriesDays : 24 * d + 12 \in Times(ds) }

IsValue(cell, v) == cell.den > 0 /\ cell.num = v * cell.den

\* C10 as claimed: with "12hour_1D_mean" (or grouping None) the result has
\* one row per calendar day of the hourly series, equal to that day's 12:00
\* value.
C10_RowPerCalendarDay ==
    (pc = "group_data" /\ grouping \in {NoGrouping, DefaultGrouping}) =>
        /\ grouped.outcome = "ok"
        /\ grouped.index = { 24 * d : d \in SeriesDays }
        /\ \A d \in SeriesDays :
              IsValue(grouped.cell[24 * d], ValueAt(ds, 24 * d + 12))

\* C10 as amended: on a gap-free hourly series holding a 12:00 time stamp,
\* "12hour_1D_mean" (or grouping None) returns one row per calendar day of
\* the series that holds a 12:00 time stamp, equal to that day's 12:00 value;
\* a first or last day without a 12:00 time stamp gets no row.
C10_RowPerNoonDay ==
    (/\ pc = "group_data"
     /\ grouping \in {NoGrouping, DefaultGrouping}
     /\ NoonDays # {}) =>
        /\ grouped.outcome = "ok"
        /\ grouped.index = { 24 * d : d \in NoonDays }
        /\ \A d \in NoonDays :
              IsValue(grouped.cell[24 * d], ValueAt(ds, 24 * d + 12))

\* the default directive on a series of three days that starts after noon
C10_Witness ==
    /\ pc = "group_data"
    /\ grouping = NoGrouping
    /\ ds.start % 24 > 12
    /\ Cardinality(SeriesDays) = 3
    /\ grouped.outcome = "ok"
    /\ Cardinality(grouped.index) = 2

(***************************************************************************)
(* Properties of Preprocess.                                               *)
(***************************************************************************)
\* C11: wind_components (WSPD and WDIR) and calculate_relative_humidity
\* (TDEW and TMPA) raise AttributeError whenever one of their two columns is
\* absent, and leave the caller's table as it was.
C11_MissingColumnFailsFirst ==
    /\ (pc = "wind_components" /\ ~({"WSPD", "WDIR"} \subseteq obj_at_call))
          => (raised = "AttributeError" /\ obj = obj_at_call)
    /\ (pc = "calculate_relative_humidity"
            /\ ~({"TDEW", "TMPA"} \subseteq obj_at_call))
          => (raised = "AttributeError" /\ obj = obj_at_call)

(***************************************************************************)
(* Properties of get_validation_window.                                    *)
(***************************************************************************)
\* the day range the docstring gives each window type
DocumentedRange(test_date, window_size, window_type) ==
    IF window_type = "forward" THEN test_date - window_size .. test_date
    ELSE IF window_type = "backward" THEN test_date .. test_date + window_size
    ELSE { d \in test_date - window_size .. test_date + window_size :
             /\ 2 * (test_date - d) <= window_size + 1
             /\ 2 * (d - test_date) <= window_size }

\* C12: get_validation_window accepts forward, backward and centered and
\* raises AttributeError for every other name; an accepted call returns only
\* members of dates inside the documented day range of its window type.
C12_DocumentedWindowTypes ==
    pc = "get_validation_window" =>
        /\ validation_window.raised = "none"
              <=> window_call.window_type \in {"forward", "backward", "centered"}
        /\ validation_window.raised = "none" =>
              validation_window.window
                  \subseteq (window_call.dates
                               \cap DocumentedRange(window_call.test_date,
                                                    window_call.window_size,
                                                    window_call.window_type))

(***************************************************************************)
(* Properties of open_data's file loop.                                    *)
(***************************************************************************)
\* C13: when the existence-check loop has finished, every path left in the
\* list handed to the dataset loader is an existing file.
C13_RemainingFilesExist ==
    pc = "open_mfdataset" => \A i \in 1 .. Len(files) : files[i] \in existing

=============================================================================
